---- MODULE Spec2Model ----
(***************************************************************************)
(* A model of the restaurant contact scraper (src/main.py): the text       *)
(* extractors and normalizers as operators over strings, the run state and *)
(* record store as two files, and the orchestrator main() with the         *)
(* fill-missing-contacts pass as a step machine over them.                 *)
(***************************************************************************)
EXTENDS Integers, Sequences, FiniteSets, TLC

(***************************************************************************)
(* Strings.  A Python str is a TLA+ string; Ch(s, i) is s[i-1], and "" when *)
(* there is no such character.                                             *)
(***************************************************************************)
Ch(s, i) == IF i >= 1 /\ i <= Len(s) THEN SubSeq(s, i, i) ELSE ""

LowerChars == "abcdefghijklmnopqrstuvwxyz"
UpperChars == "ABCDEFGHIJKLMNOPQRSTUVWXYZ"
DigitChars == "0123456789"

CharsOf(s) == {Ch(s, i) : i \in 1..Len(s)}

Lower == CharsOf(LowerChars)
Upper == CharsOf(UpperChars)
Digit == CharsOf(DigitChars)
Alpha == Lower \cup Upper
AlNum == Alpha \cup Digit
\* The decimal digits past ASCII that a string of the model can hold: \d of
\* the re module matches every character of Unicode category Nd.
UnicodeDigitChars ==
    "۰۱۲۳۴۵۶۷۸۹߀߁߂߃߄߅߆߇߈߉০১২৩৪৫৬৭৮৯"
    \o "૦૧૨૩૪૫૬૭૮૯௦௧௨௩௪௫௬௭௮௯೦೧೨೩೪೫೬೭೮೯"
    \o "෦෧෨෩෪෫෬෭෮෯໐໑໒໓໔໕໖໗໘໙႐႑႒႓႔႕႖႗႘႙"
    \o "០១២៣៤៥៦៧៨៩᧐᧑᧒᧓᧔᧕᧖᧗᧘᧙᪀᪁᪂᪃᪄᪅᪆᪇᪈᪉"
    \o "᪐᪑᪒᪓᪔᪕᪖᪗᪘᪙᮰᮱᮲᮳᮴᮵᮶᮷᮸᮹꣐꣑꣒꣓꣔꣕꣖꣗꣘꣙"
    \o "꧐꧑꧒꧓꧔꧕꧖꧗꧘꧙꧰꧱꧲꧳꧴꧵꧶꧷꧸꧹꯰꯱꯲꯳꯴꯵꯶꯷꯸꯹"
\* \d
DecimalDigit == Digit \cup CharsOf(UnicodeDigitChars)
\* \s of the re module and the characters str.strip() removes, both the
\* characters str.isspace() holds of: space, \t, \n, \r, \f and, written here
\* as the characters themselves, U+000B, U+001C, U+001D, U+001E, U+001F,
\* U+0085, U+00A0 and U+1680.  The other spaces of Unicode (U+2000-U+200A,
\* U+2028, U+2029, U+202F, U+205F, U+3000) are characters no string of the
\* model can hold.
Space == {" ", "\t", "\n", "\r", "\f",
          "", "", "", "", "", "", " ", " "}
\* [a-zA-Z0-9._%+-]
LocalChar == AlNum \cup {".", "_", "%", "+", "-"}
\* [a-zA-Z0-9.-]
DomainChar == AlNum \cup {".", "-"}
\* [a-zA-Z0-9@._-], the characters clean_email keeps
EmailKeep == AlNum \cup {"@", ".", "_", "-"}
\* [\d+\-\s], the characters clean_phone keeps
PhoneKeep == DecimalDigit \cup {"+", "-"} \cup Space
\* [\d\s\-], the middle of a phone match
PhoneMid == DecimalDigit \cup Space \cup {"-"}

AllIn(s, C) == \A i \in 1..Len(s) : Ch(s, i) \in C

\* the length of the longest run of characters of C that starts at s[i]
RECURSIVE RunLen(_, _, _)
RunLen(s, i, C) ==
    IF i > Len(s) \/ Ch(s, i) \notin C THEN 0 ELSE 1 + RunLen(s, i + 1, C)

\* re.sub('[^C]', '', s)
RECURSIVE KeepOnly(_, _)
KeepOnly(s, C) ==
    IF s = "" THEN ""
    ELSE (IF Head(s) \in C THEN Head(s) ELSE "") \o KeepOnly(Tail(s), C)

CountIn(s, C) == Cardinality({i \in 1..Len(s) : Ch(s, i) \in C})

\* the length of the longest run of characters of C that ends at s[i]
RECURSIVE RunLenBack(_, _, _)
RunLenBack(s, i, C) ==
    IF i < 1 \/ Ch(s, i) \notin C THEN 0 ELSE 1 + RunLenBack(s, i - 1, C)

\* str.strip()
strip(s) ==
    LET lead == RunLen(s, 1, Space)
    IN  IF lead = Len(s) THEN ""
        ELSE SubSeq(s, lead + 1, Len(s) - RunLenBack(s, Len(s), Space))

LowerOf(c) ==
    IF c \in Upper
    THEN Ch(LowerChars, CHOOSE i \in 1..26 : Ch(UpperChars, i) = c)
    ELSE c
UpperOf(c) ==
    IF c \in Lower
    THEN Ch(UpperChars, CHOOSE i \in 1..26 : Ch(LowerChars, i) = c)
    ELSE c

\* str.lower()
RECURSIVE lower(_)
lower(s) == IF s = "" THEN "" ELSE LowerOf(Head(s)) \o lower(Tail(s))

\* str.capitalize(): the first character upper-cased, the rest lower-cased
capitalize(s) == IF s = "" THEN "" ELSE UpperOf(Head(s)) \o lower(Tail(s))

\* str.startswith(p)
startswith(s, p) == Len(s) >= Len(p) /\ SubSeq(s, 1, Len(p)) = p

\* s.split(", "): the pieces between the non-overlapping separators
RECURSIVE SplitFrom(_, _, _)
SplitFrom(s, from, i) ==
    IF i + 1 > Len(s) THEN <<SubSeq(s, from, Len(s))>>
    ELSE IF SubSeq(s, i, i + 1) = ", "
         THEN <<SubSeq(s, from, i - 1)>> \o SplitFrom(s, i + 2, i + 2)
         ELSE SplitFrom(s, from, i + 1)
split(s) == SplitFrom(s, 1, 1)

\* ", ".join(parts)
RECURSIVE join(_)
join(parts) ==
    IF parts = <<>> THEN ""
    ELSE IF Len(parts) = 1 THEN parts[1]
    ELSE parts[1] \o ", " \o join(Tail(parts))

\* list(dict.fromkeys(xs)): duplicates removed, the first occurrence kept
RECURSIVE fromkeys(_)
fromkeys(xs) ==
    IF xs = <<>> THEN <<>>
    ELSE LET init == fromkeys(SubSeq(xs, 1, Len(xs) - 1))
             last == xs[Len(xs)]
         IN  IF \E i \in 1..Len(init) : init[i] = last THEN init
             ELSE Append(init, last)

(***************************************************************************)
(* Validation functions.                                                   *)
(***************************************************************************)
\* the position of the last "." of s, 0 when there is none
RECURSIVE LastDotFrom(_, _)
LastDotFrom(s, i) ==
    IF i < 1 THEN 0 ELSE IF Ch(s, i) = "." THEN i ELSE LastDotFrom(s, i - 1)
LastDot(s) == LastDotFrom(s, Len(s))

\* s is [a-zA-Z0-9._%+-]+@[a-zA-Z0-9.-]+\.[a-zA-Z]{2,} from its first to its
\* last character
EmailFullMatch(s) ==
    LET l   == RunLen(s, 1, LocalChar)
        dom == SubSeq(s, l + 2, Len(s))
        d   == LastDot(dom)
    IN  /\ l >= 1
        /\ l + 1 <= Len(s)
        /\ Ch(s, l + 1) = "@"
        /\ d >= 2
        /\ AllIn(SubSeq(dom, 1, d - 1), DomainChar)
        /\ Len(dom) - d >= 2
        /\ AllIn(SubSeq(dom, d + 1, Len(dom)), Alpha)

\* re.match('^...$', email): $ also matches before one final newline
validate_email(email) ==
    IF email = "-" THEN TRUE
    ELSE \/ EmailFullMatch(email)
         \/ /\ Len(email) >= 1
            /\ Ch(email, Len(email)) = "\n"
            /\ EmailFullMatch(SubSeq(email, 1, Len(email) - 1))

validate_url(url) ==
    IF url = "" \/ url = "-" THEN FALSE
    ELSE startswith(url, "http://") \/ startswith(url, "https://")

(***************************************************************************)
(* Text extractors.                                                        *)
(***************************************************************************)
\* The end (the index after the last character) of the match of the email
\* pattern that starts at text[i], 0 when none starts there.  The local part
\* is the whole run before "@"; the domain part is greedy, so the "." before
\* the top-level domain is the last "." of the run after "@" that two
\* letters follow; the top-level domain is the whole run of letters.
EmailMatchEnd(text, i) ==
    LET l  == RunLen(text, i, LocalChar)
        at == i + l
        m  == RunLen(text, at + 1, DomainChar)
        js == {j \in 1..m : /\ Ch(text, at + 1 + j) = "."
                            /\ RunLen(text, at + 2 + j, Alpha) >= 2}
        j  == CHOOSE x \in js : \A y \in js : y <= x
    IN  IF l = 0 \/ at > Len(text) \/ Ch(text, at) # "@" \/ js = {} THEN 0
        ELSE at + 2 + j + RunLen(text, at + 2 + j, Alpha)

\* re.findall: the matches left to right, none overlapping
RECURSIVE FindEmails(_, _)
FindEmails(text, i) ==
    IF i > Len(text) THEN <<>>
    ELSE LET e == EmailMatchEnd(text, i)
         IN  IF e = 0 THEN FindEmails(text, i + 1)
             ELSE <<SubSeq(text, i, e - 1)>> \o FindEmails(text, e)

extract_emails(text) ==
    LET emails == FindEmails(text, 1)
    IN  IF emails # <<>> THEN emails ELSE <<"-">>

\* The end of the match of \+?\d[\d\s\-]{7,}\d that starts at text[i], 0 when
\* none: the middle is greedy, so the match ends at the last digit of the run
\* of digits, spaces and hyphens, which at least 7 characters must precede.
PhoneMatchEnd(text, i) ==
    LET p  == IF i <= Len(text) /\ Ch(text, i) = "+" THEN i + 1 ELSE i
        m  == RunLen(text, p + 1, PhoneMid)
        ks == {k \in 8..m : Ch(text, p + k) \in DecimalDigit}
    IN  IF p > Len(text) \/ Ch(text, p) \notin DecimalDigit \/ ks = {} THEN 0
        ELSE p + 1 + (CHOOSE x \in ks : \A y \in ks : y <= x)

RECURSIVE FindPhones(_, _)
FindPhones(text, i) ==
    IF i > Len(text) THEN <<>>
    ELSE LET e == PhoneMatchEnd(text, i)
         IN  IF e = 0 THEN FindPhones(text, i + 1)
             ELSE <<SubSeq(text, i, e - 1)>> \o FindPhones(text, e)

extract_phones(text) ==
    LET phones == FindPhones(text, 1)
    IN  IF phones # <<>> THEN phones ELSE <<"-">>

(***************************************************************************)
(* Normalizers.                                                            *)
(***************************************************************************)
RECURSIVE CleanEmails(_)
CleanEmails(emails) ==
    IF emails = <<>> THEN <<>>
    ELSE LET email == strip(KeepOnly(Head(emails), EmailKeep))
         IN  (IF Len(email) > 5 /\ validate_email(email)
              THEN <<lower(email)>> ELSE <<>>) \o CleanEmails(Tail(emails))

clean_email(email_str) ==
    IF email_str = "" \/ email_str = "-" THEN "-"
    ELSE LET unique_emails == fromkeys(CleanEmails(split(email_str)))
         IN  IF unique_emails # <<>> THEN join(unique_emails) ELSE "-"

RECURSIVE CleanPhones(_)
CleanPhones(phones) ==
    IF phones = <<>> THEN <<>>
    ELSE LET phone == strip(KeepOnly(Head(phones), PhoneKeep))
             digits_only == KeepOnly(phone, DecimalDigit)
         IN  (IF 7 <= Len(digits_only) /\ Len(digits_only) <= 15
              THEN <<phone>> ELSE <<>>) \o CleanPhones(Tail(phones))

clean_phone(phone_str) ==
    IF phone_str = "" \/ phone_str = "-" THEN "-"
    ELSE LET unique_phones == fromkeys(CleanPhones(split(phone_str)))
         IN  IF unique_phones # <<>> THEN join(unique_phones) ELSE "-"

\* the first element of re.split('[./]', s)
BeforeDotOrSlash(s) ==
    LET stops == {i \in 1..Len(s) : Ch(s, i) \in {".", "/"}}
    IN  IF stops = {} THEN s
        ELSE SubSeq(s, 1, (CHOOSE j \in stops : \A k \in stops : j <= k) - 1)

\* re.sub('^https?://(www\.)?', '', url)
StripScheme(url) ==
    LET rest == IF startswith(url, "http://") THEN SubSeq(url, 8, Len(url))
                ELSE IF startswith(url, "https://") THEN SubSeq(url, 9, Len(url))
                ELSE url
    IN  IF rest # url /\ startswith(rest, "www.") THEN SubSeq(rest, 5, Len(rest))
        ELSE rest

extract_domain_name(url) ==
    LET domain == KeepOnly(BeforeDotOrSlash(StripScheme(url)), AlNum)
    IN  IF domain # "" THEN capitalize(domain) ELSE "Unknown"

\* re.sub('\s*[|\-].*$', '', name): the match starts at the first position
\* from which spaces and then "|" or "-" follow with no line break after it
\* other than one that ends the string, and it runs to the end of the string
\* (to before that final line break)
CutAtDelimiter(name) ==
    LET n == Len(name)
        starts == {i \in 1..n :
                     LET d == i + RunLen(name, i, Space)
                     IN  /\ d <= n
                         /\ Ch(name, d) \in {"|", "-"}
                         /\ \A k \in (d + 1)..(n - 1) : Ch(name, k) # "\n"}
        i == CHOOSE a \in starts : \A b \in starts : a <= b
    IN  IF starts = {} THEN name
        ELSE SubSeq(name, 1, i - 1)
             \o (IF Ch(name, n) = "\n" /\ n > i + RunLen(name, i, Space)
                 THEN "\n" ELSE "")

\* re.sub('\s+', ' ', name)
RECURSIVE CollapseSpaces(_)
CollapseSpaces(s) ==
    IF s = "" THEN ""
    ELSE IF Head(s) \in Space
         THEN " " \o CollapseSpaces(SubSeq(s, RunLen(s, 1, Space) + 1, Len(s)))
         ELSE Head(s) \o CollapseSpaces(Tail(s))

generic_names == {"contact us", "contact", "home", "enquiries", "about us", "enquiry"}

clean_name(title, website) ==
    LET name == strip(CollapseSpaces(CutAtDelimiter(title)))
    IN  IF lower(name) \in generic_names /\ website # ""
        THEN extract_domain_name(website) \o " Restaurant"
        ELSE IF name # "" THEN name ELSE "Unknown Restaurant"

(***************************************************************************)
(* Configuration (lines 16-28) and the sample inputs of the model.         *)
(***************************************************************************)
NUM_RESULTS == 10
QUERY == "site:.sg \"restaurant\" (\"contact us\" OR \"contact\" OR \"email\" OR \"phone\" OR \"address\")"

\* the most items of one search page, and the most records a run may end with
MaxPage == 2
MaxRecords == 2

\* the values QUERY may be configured to
Queries == {QUERY, "sg", "  a  "}

URL1 == "https://www.sakura.sg/contact"
URL2 == "http://tokyo.sg"

\* A search result item is a dict with some of the keys title, snippet and
\* link; an item that is no dict is the record [not_dict |-> ...].
ItemA == [title   |-> "Sakura Sushi - Home",
          snippet |-> "Email Info@Sakura.sg, info@sakura.sg Tel +65 6123 4567",
          link    |-> URL1]
ItemB == [title |-> "Sakura Sushi | Menu", snippet |-> "Best sushi in town", link |-> URL2]
ItemC == [title |-> "Contact Us"]
ItemD == [not_dict |-> "null"]
Items == {ItemA, ItemB}

RECURSIVE SeqsUpTo(_, _)
SeqsUpTo(S, n) ==
    IF n = 0 THEN {<<>>}
    ELSE LET shorter == SeqsUpTo(S, n - 1)
         IN  shorter \cup {Append(q, e) : q \in shorter, e \in S}

\* the "items" of a search response: the pages of ItemA and ItemB, and pages
\* that hold an item without a link or an item that is no dict
Pages ==
    SeqsUpTo(Items, MaxPage)
    \cup {<<ItemC>>, <<ItemC, ItemB>>, <<ItemD, ItemA>>}

\* What the search API answers: a transport failure, an error payload, or a
\* response with items.
ApiReplies == {[kind |-> "network_error", items |-> <<>>],
               [kind |-> "api_error", items |-> <<>>]}
              \cup {[kind |-> "ok", items |-> p] : p \in Pages}

\* The excerpt scrape_website_content gets from a site; "" is every failure
\* (transport error, non-2xx status, non-HTML content).
Excerpts == {"", "Write to Chef@Tokyo.sg or chef@tokyo.sg", "Tel 6777 8888"}

\* What the generative service does: it raises, or it answers with a text.
GeminiReplies == {[raised |-> TRUE, text |-> ""],
                  [raised |-> FALSE, text |-> "-\n-"],
                  [raised |-> FALSE, text |-> "Sakura Sushi: Boss@Sakura.sg"]}

\* What the service answers when the resolver is called alone: also texts
\* with two and with four addresses.
ResolverReplies ==
    GeminiReplies
    \cup {[raised |-> FALSE, text |-> "a@x.sg\nb@y.sg"],
          [raised |-> FALSE, text |-> "1. a@x.sg 2. b@y.sg 3. c@z.sg 4. d@w.sg"]}

\* the most records the resolver is called on
MaxMissing == 4

\* records that miss their email
MissingSamples ==
    {[name |-> "Sakura Sushi", website |-> URL2, email |-> "-", phone |-> "-"],
     [name |-> "Sakura Restaurant", website |-> URL1, email |-> "-",
      phone |-> "+65 6123 4567"],
     [name |-> "Unknown Restaurant", website |-> "https://x.sg", email |-> "-",
      phone |-> "-"]}

\* What a write of a file does: it succeeds, open() fails (the file is left
\* as it was), or the write fails after open() truncated the file.
WriteOutcomes == {"ok", "open_failed", "write_failed"}

(***************************************************************************)
(* Tables of the extractors and normalizers on the sample inputs, each     *)
(* computed once: emails_of(t) is extract_emails(t), and so on.            *)
(***************************************************************************)
\* f as a table of its values
Table(f) == f @@ <<>>

SampleTexts ==
    {it.snippet : it \in {i \in Items : "snippet" \in DOMAIN i}}
    \cup Excerpts \cup {r.text : r \in ResolverReplies}
SampleLinks == {it.link : it \in {i \in Items : "link" \in DOMAIN i}} \cup {"-"}
SampleTitles == {it.title : it \in {i \in Items : "title" \in DOMAIN i}} \cup {"-"}

EmailsTable == Table([t \in SampleTexts |-> extract_emails(t)])
PhonesTable == Table([t \in SampleTexts |-> extract_phones(t)])
CleanEmailTable ==
    Table([e \in {join(EmailsTable[t]) : t \in SampleTexts} |-> clean_email(e)])
CleanPhoneTable ==
    Table([e \in {join(PhonesTable[t]) : t \in SampleTexts} |-> clean_phone(e)])
CleanNameTable ==
    Table([p \in SampleTitles \X SampleLinks |-> clean_name(p[1], p[2])])
ValidUrlTable == Table([u \in SampleLinks |-> validate_url(u)])

\* table[v], or `computed` for a v the table does not hold
Cached(table, v, computed) == IF v \in DOMAIN table THEN table[v] ELSE computed

emails_of(text) == Cached(EmailsTable, text, extract_emails(text))
phones_of(text) == Cached(PhonesTable, text, extract_phones(text))
cleaned_email(email_str) == Cached(CleanEmailTable, email_str, clean_email(email_str))
cleaned_phone(phone_str) == Cached(CleanPhoneTable, phone_str, clean_phone(phone_str))
cleaned_name(title, website) ==
    Cached(CleanNameTable, <<title, website>>, clean_name(title, website))
is_valid_url(url) == Cached(ValidUrlTable, url, validate_url(url))

\* not query or len(query.strip()) < 3
too_short(query) == query = "" \/ Len(strip(query)) < 3
TooShortTable == Table([q \in Queries |-> too_short(q)])
is_too_short(query) == Cached(TooShortTable, query, too_short(query))

(***************************************************************************)
(* Files.  A file is absent, corrupt (not parseable) or holds JSON.        *)
(***************************************************************************)
AbsentState == [kind |-> "absent", start_index |-> 0, scraped_urls |-> <<>>]
CorruptState == [kind |-> "corrupt", start_index |-> 0, scraped_urls |-> <<>>]
AbsentData == [kind |-> "absent", data |-> <<>>]
CorruptData == [kind |-> "corrupt", data |-> <<>>]

Range(q) == {q[k] : k \in 1..Len(q)}

\* load_existing_data(): the list of the records file, [] when the file is
\* absent or does not parse
load_existing_data(file) ==
    IF file.kind = "absent" THEN <<>>
    ELSE IF file.kind = "corrupt" THEN <<>>
    ELSE file.data

\* load_state(): the default when the file is absent; json.load raises when
\* the file does not parse
load_state(file) ==
    IF file.kind = "absent"
    THEN [raised |-> FALSE, start_index |-> 1, scraped_urls |-> <<>>]
    ELSE IF file.kind = "corrupt"
    THEN [raised |-> TRUE, start_index |-> 0, scraped_urls |-> <<>>]
    ELSE [raised |-> FALSE, start_index |-> file.start_index,
          scraped_urls |-> file.scraped_urls]

\* with open(state_path, "w") as f: json.dump(state, f)
WriteState(file, state, outcome) ==
    IF outcome = "ok"
    THEN [kind |-> "json", start_index |-> state.start_index,
          scraped_urls |-> state.scraped_urls]
    ELSE IF outcome = "open_failed" THEN file
    ELSE CorruptState

\* save_state(state): the write, its failure printed and swallowed
save_state(file, state, outcome) == WriteState(file, state, outcome)

\* with open(json_path, "w") as f: json.dump(restaurants, f)
WriteData(file, restaurants, outcome) ==
    IF outcome = "ok" THEN [kind |-> "json", data |-> restaurants]
    ELSE IF outcome = "open_failed" THEN file
    ELSE CorruptData

(***************************************************************************)
(* The search client and the content fetcher.                              *)
(***************************************************************************)
\* fetch_cse_results with its upper limit of start off by one
fetch_cse_results_off_by_one(query, start, api) ==
    IF is_too_short(query)
    THEN [raised |-> TRUE, requested |-> FALSE, items |-> <<>>,
          error |-> "Query must be at least 3 characters"]
    ELSE IF start < 1 \/ start > 101
    THEN [raised |-> TRUE, requested |-> FALSE, items |-> <<>>,
          error |-> "Start index must be between 1 and 100"]
    ELSE [raised |-> FALSE, requested |-> TRUE, error |-> "",
          items |-> IF api.kind = "ok" THEN api.items ELSE <<>>]

\* fetch_cse_results(query, start) when the API answers `api`: whether it
\* raised ValueError, whether it issued the HTTP request, and its result
fetch_cse_results(query, start, api) ==
    IF is_too_short(query)
    THEN [raised |-> TRUE, requested |-> FALSE, items |-> <<>>,
          error |-> "Query must be at least 3 characters"]
    ELSE IF start < 1 \/ start > 100
    THEN [raised |-> TRUE, requested |-> FALSE, items |-> <<>>,
          error |-> "Start index must be between 1 and 100"]
    ELSE [raised |-> FALSE, requested |-> TRUE, error |-> "",
          items |-> IF api.kind = "ok" THEN api.items ELSE <<>>]

\* scrape_website_content(url) when the site yields `excerpt`
scrape_website_content(url, excerpt) ==
    IF ~is_valid_url(url) THEN "" ELSE excerpt

(***************************************************************************)
(* The fallback resolver.                                                  *)
(***************************************************************************)
NoEmail(r) == [name |-> r.name, website |-> r.website, email |-> "-", phone |-> "-"]

AllNoEmail(rs) == [k \in 1..Len(rs) |-> NoEmail(rs[k])]

\* the loop of lines 330-335 with email_idx never advanced
RECURSIVE AssignEmails_first_only(_, _, _)
AssignEmails_first_only(batch, emails, email_idx) ==
    IF batch = <<>> THEN <<>>
    ELSE IF email_idx < Len(emails) /\ emails[email_idx + 1] # "-"
    THEN <<[name |-> Head(batch).name, website |-> Head(batch).website,
            email |-> emails[email_idx + 1], phone |-> "-"]>>
         \o AssignEmails_first_only(Tail(batch), emails, email_idx)
    ELSE <<[name |-> Head(batch).name, website |-> Head(batch).website,
            email |-> "-", phone |-> "-"]>>
         \o AssignEmails_first_only(Tail(batch), emails, email_idx)

\* the loop of lines 330-335 over missing_restaurants[:3]
RECURSIVE AssignEmails(_, _, _)
AssignEmails(batch, emails, email_idx) ==
    IF batch = <<>> THEN <<>>
    ELSE LET r == Head(batch)
         IN  IF email_idx < Len(emails) /\ emails[email_idx + 1] # "-"
             THEN <<[name |-> r.name, website |-> r.website,
                     email |-> emails[email_idx + 1], phone |-> "-"]>>
                  \o AssignEmails(Tail(batch), emails, email_idx + 1)
             ELSE <<NoEmail(r)>> \o AssignEmails(Tail(batch), emails, email_idx)

Min(a, b) == IF a <= b THEN a ELSE b

\* lines 324-336 and the return of line 341, given the emails of the response
assign_or_none(missing_restaurants, emails) ==
    IF emails # <<"-">>
    THEN AssignEmails(SubSeq(missing_restaurants, 1,
                             Min(3, Len(missing_restaurants))), emails, 0)
    ELSE AllNoEmail(missing_restaurants)

\* gemini_fallback_bulk(missing_restaurants) with GEMINI_API_KEY set or not
\* (key) when the service does `reply`
gemini_fallback_bulk(missing_restaurants, key, reply) ==
    IF missing_restaurants = <<>> \/ ~key THEN AllNoEmail(missing_restaurants)
    ELSE IF reply.raised THEN AllNoEmail(missing_restaurants)
    ELSE assign_or_none(missing_restaurants,
                        emails_of(reply.text))

(***************************************************************************)
(* The orchestrator: the pieces of main() and of update_missing_contacts(). *)
(***************************************************************************)
\* item.get(key, default)
Get(item, key, default) == IF key \in DOMAIN item THEN item[key] ELSE default

\* isinstance(item, dict)
IsDict(item) == "not_dict" \notin DOMAIN item

\* the membership test looking at the last URL scraped only
already_scraped_last_only(link, state) ==
    state.scraped_urls # <<>> /\ link = state.scraped_urls[Len(state.scraped_urls)]

\* link in state['scraped_urls']
already_scraped(link, state) == link \in Range(state.scraped_urls)

\* emails = website_emails when the page has some (lines 393-395)
website_or(emails, website_emails) ==
    IF website_emails # <<"-">> THEN website_emails ELSE emails

\* The emails of an item (lines 385-397): those of its snippet, or when it
\* has none those of the excerpt of its site, if any.
found_emails(emails, website_content) ==
    IF emails = <<"-">> /\ website_content # ""
    THEN website_or(emails, emails_of(website_content))
    ELSE emails

\* restaurant_data (lines 385-404)
restaurant_data(title, snippet, link, excerpt) ==
    [name    |-> cleaned_name(title, link),
     website |-> link,
     email   |-> cleaned_email(join(found_emails(
                                      emails_of(snippet),
                                      scrape_website_content(link, excerpt)))),
     phone   |-> cleaned_phone(join(phones_of(snippet)))]

\* the loop's body on a dict with these fields (lines 371-407)
process_fields(title, snippet, link, excerpt, st, records, count) ==
    IF ~is_valid_url(link) \/ already_scraped(link, st)
    THEN [state |-> st, all_restaurants |-> records, new_count |-> count]
    ELSE [state |-> [st EXCEPT !.scraped_urls = Append(@, link)],
          all_restaurants |->
              Append(records, restaurant_data(title, snippet, link, excerpt)),
          new_count |-> count + 1]

\* One iteration of the loop of main() (lines 366-414) on `item`, when the
\* site of its link yields `excerpt`.
process_item(item, excerpt, st, records, count) ==
    IF ~IsDict(item)
    THEN [state |-> st, all_restaurants |-> records, new_count |-> count]
    ELSE process_fields(Get(item, "title", "-"), Get(item, "snippet", ""),
                        Get(item, "link", "-"), excerpt, st, records, count)

\* the state with the advance of start_index left out
advance_start_index_skipped(st) == st

\* state['start_index'] += NUM_RESULTS
advance_start_index(st) == [st EXCEPT !.start_index = @ + NUM_RESULTS]

\* restaurants[k] after lines 269-279, given what its page holds
with_contacts(r, emails, phones) ==
    [r EXCEPT !.email = IF emails # <<"-">> THEN join(emails) ELSE @,
              !.phone = IF r.phone = "-" /\ phones # <<"-">>
                        THEN join(phones) ELSE @]

\* lines 268-283 on a record that misses its email
update_missing(rs, k, r2, found, missing, count) ==
    [restaurants |-> [rs EXCEPT ![k] = r2],
     missing_restaurants |-> IF r2.email = "-" THEN Append(missing, r2)
                             ELSE missing,
     updated_count |-> IF found THEN count + 1 ELSE count]

update_scraped(rs, k, website_content, missing, count) ==
    IF website_content = ""
    THEN update_missing(rs, k, rs[k], FALSE, missing, count)
    ELSE update_missing(
           rs, k,
           with_contacts(rs[k],
                         emails_of(website_content),
                         phones_of(website_content)),
           emails_of(website_content) # <<"-">>,
           missing, count)

\* One iteration of the first loop of update_missing_contacts() (lines
\* 264-285) on restaurants[k], when its site yields `excerpt`.
update_restaurant(rs, k, excerpt, missing, count) ==
    IF rs[k].email # "-"
    THEN [restaurants |-> rs, missing_restaurants |-> missing,
          updated_count |-> count]
    ELSE update_scraped(rs, k, scrape_website_content(rs[k].website, excerpt),
                        missing, count)

\* the restaurants a result's name matches, in the inner loops of lines
\* 293-297 and 454-459
Matches(rs, result) ==
    {k \in 1..Len(rs) : rs[k].name = result.name /\ result.email # "-"}

\* The loops that copy the resolver's results onto the records (lines
\* 292-297 of update_missing_contacts, lines 453-459 of main): the records
\* and the count of updates after them.  Only main copies a result's phone.
RECURSIVE apply_results(_, _, _, _)
apply_results(rs, results, count, set_phone) ==
    IF results = <<>> THEN [restaurants |-> rs, updated |-> count]
    ELSE LET result == Head(results)
             hit    == Matches(rs, result)
             rs2    == [k \in 1..Len(rs) |->
                          IF k \in hit
                          THEN [rs[k] EXCEPT
                                  !.email = result.email,
                                  !.phone = IF set_phone /\ result.phone # "-"
                                            THEN result.phone ELSE @]
                          ELSE rs[k]]
         IN  apply_results(rs2, Tail(results), count + Cardinality(hit), set_phone)

\* missing = [r for r in restaurants if r['email'] == '-']
RECURSIVE missing_of(_)
missing_of(rs) ==
    IF rs = <<>> THEN <<>>
    ELSE (IF Head(rs).email = "-" THEN <<Head(rs)>> ELSE <<>>) \o missing_of(Tail(rs))

(***************************************************************************)
(* State.                                                                  *)
(***************************************************************************)
VARIABLES
    env,                 \* API_KEY and CSE_ID set, GEMINI_API_KEY set, QUERY
    state_file,          \* exported_data/scraping_state.json
    json_file,           \* exported_data/restaurant_details.json
    pc,                  \* where the process is
    exit_code,           \* of the last run: "0", "1", "" before any
    fatal,               \* the message of the last run's [FATAL ERROR]
    requested,           \* the last run sent the search request
    loaded,              \* what the run loaded: the state and the records
    state,               \* main: state
    all_restaurants,     \* main: all_restaurants
    results,             \* main: results
    idx,                 \* main: the position of the loop in results
    new_count,           \* main: new_count
    state_write,         \* how the run's write of the state file went
    restaurants,         \* update_missing_contacts and main: restaurants
    missing_restaurants, \* update_missing_contacts: missing_restaurants
    updated_count,       \* update_missing_contacts: updated_count
    pos,                 \* update_missing_contacts: the position of its loop
    pass_start,          \* the records the fill pass began with
    found_phone,         \* the phone the pass found on each record's page
    gemini_reply,        \* the resolver called alone: what the service did
    gemini_results       \* the resolver called alone: what it returned

files == <<state_file, json_file>>
outv  == <<exit_code, fatal, requested>>
mainv == <<loaded, state, all_restaurants, results, idx, new_count>>
umcv  == <<restaurants, missing_restaurants, updated_count, pos>>
passv == <<pass_start, found_phone>>
gemv  == <<gemini_reply, gemini_results>>
vars  == <<env, files, pc, outv, mainv, state_write, umcv, passv, gemv>>

DefaultState == [start_index |-> 1, scraped_urls |-> <<>>]

Envs == [api_configured : BOOLEAN, gemini_key : BOOLEAN, query : Queries]

Init ==
    /\ env \in Envs
    /\ state_file = AbsentState
    /\ json_file = AbsentData
    /\ pc = "idle"
    /\ exit_code = ""
    /\ fatal = ""
    /\ requested = FALSE
    /\ loaded = [start_index |-> 1, scraped_urls |-> <<>>, data |-> <<>>]
    /\ state = DefaultState
    /\ all_restaurants = <<>>
    /\ results = <<>>
    /\ idx = 1
    /\ new_count = 0
    /\ state_write = "none"
    /\ restaurants = <<>>
    /\ missing_restaurants = <<>>
    /\ updated_count = 0
    /\ pos = 1
    /\ pass_start = <<>>
    /\ found_phone = <<>>
    /\ gemini_reply = [raised |-> FALSE, text |-> ""]
    /\ gemini_results = <<>>

\* the number of records the loop of main() appends for these items
RECURSIVE NewRecords(_, _)
NewRecords(items, seen) ==
    IF items = <<>> THEN 0
    ELSE LET link == Get(Head(items), "link", "-")
         IN  IF IsDict(Head(items)) /\ is_valid_url(link)
                /\ link \notin seen
             THEN 1 + NewRecords(Tail(items), seen \cup {link})
             ELSE NewRecords(Tail(items), seen)

NoLoaded == [start_index |-> 1, scraped_urls |-> <<>>, data |-> <<>>]

\* The locals of main() and of update_missing_contacts() are gone when the
\* function returns.
MainLocalsGone ==
    /\ loaded' = NoLoaded
    /\ state' = DefaultState
    /\ all_restaurants' = <<>>
    /\ results' = <<>>
    /\ idx' = 1
    /\ new_count' = 0
    /\ state_write' = "none"

PassLocalsGone ==
    /\ restaurants' = <<>>
    /\ missing_restaurants' = <<>>
    /\ updated_count' = 0
    /\ pos' = 1
    /\ pass_start' = <<>>
    /\ found_phone' = <<>>

\* The run ends as main() returns: exit(main()).
Return(code, message) ==
    /\ pc' = "idle"
    /\ exit_code' = code
    /\ fatal' = message

\* validate_config, the two loads and the search (lines 348-363).  The model
\* follows the runs that end with at most MaxRecords records.
MainStart ==
    /\ pc = "idle"
    /\ \E api \in ApiReplies :
         LET data == load_existing_data(json_file)
             st   == load_state(state_file)
             res  == fetch_cse_results(env.query, st.start_index, api)
         IN  /\ Len(data) + NewRecords(api.items, Range(st.scraped_urls))
                  <= MaxRecords
             /\ IF ~env.api_configured
                THEN /\ Return("1", "Missing required API_KEY or CSE_ID in .env file")
                     /\ requested' = FALSE
                     /\ MainLocalsGone
                ELSE IF st.raised
                THEN /\ Return("1", "JSONDecodeError")
                     /\ requested' = FALSE
                     /\ MainLocalsGone
                ELSE IF res.raised
                THEN /\ Return("1", res.error)
                     /\ requested' = res.requested
                     /\ MainLocalsGone
                ELSE IF res.items = <<>>
                THEN /\ Return("0", "")
                     /\ requested' = res.requested
                     /\ MainLocalsGone
                ELSE /\ pc' = "loop"
                     /\ exit_code' = ""
                     /\ fatal' = ""
                     /\ requested' = res.requested
                     /\ loaded' = [start_index |-> st.start_index,
                                   scraped_urls |-> st.scraped_urls,
                                   data |-> data]
                     /\ state' = [start_index |-> st.start_index,
                                  scraped_urls |-> st.scraped_urls]
                     /\ all_restaurants' = data
                     /\ results' = res.items
                     /\ idx' = 1
                     /\ new_count' = 0
                     /\ state_write' = "none"
    /\ UNCHANGED <<env, files, umcv, passv, gemv>>

MainItemDone(r) ==
    /\ state' = r.state
    /\ all_restaurants' = r.all_restaurants
    /\ new_count' = r.new_count

\* one iteration of the loop over results (lines 366-414)
MainItem ==
    /\ pc = "loop"
    /\ idx <= Len(results)
    /\ \E excerpt \in Excerpts :
         MainItemDone(process_item(results[idx], excerpt, state,
                                   all_restaurants, new_count))
    /\ idx' = idx + 1
    /\ UNCHANGED <<env, files, pc, outv, loaded, results, state_write, umcv, passv, gemv>>

\* state['start_index'] += NUM_RESULTS; save_state(state) (lines 416-418).
\* The loop is over: its variables are not read again.
MainSaveState ==
    /\ pc = "loop"
    /\ idx > Len(results)
    /\ \E outcome \in WriteOutcomes :
         /\ state' = advance_start_index(state)
         /\ state_file' = save_state(state_file, state', outcome)
         /\ state_write' = outcome
    /\ pc' = "save_json"
    /\ results' = <<>>
    /\ idx' = 1
    /\ new_count' = 0
    /\ UNCHANGED <<env, json_file, outv, loaded, all_restaurants, umcv, passv, gemv>>

\* The write of the records (lines 420-428), and with it written the entry
\* of update_missing_contacts (lines 259-261).  The export to Excel between
\* them (lines 430-438) touches neither file of the model.
MainSaveJson ==
    /\ pc = "save_json"
    /\ \E outcome \in WriteOutcomes :
         /\ json_file' = WriteData(json_file, all_restaurants, outcome)
         /\ IF outcome # "ok"
            THEN /\ Return("0", "")
                 /\ UNCHANGED <<umcv, passv>>
            ELSE /\ pc' = "umc_loop"
                 /\ restaurants' = load_existing_data(json_file')
                 /\ missing_restaurants' = <<>>
                 /\ updated_count' = 0
                 /\ pos' = 1
                 /\ pass_start' = restaurants'
                 /\ found_phone' = [k \in 1..Len(restaurants') |-> "-"]
                 /\ UNCHANGED <<exit_code, fatal>>
    /\ MainLocalsGone
    /\ UNCHANGED <<env, state_file, requested, gemv>>

\* the phone update_missing_contacts finds on the page of a record that
\* misses email and phone
phone_on_page(r, website_content, phones) ==
    IF r.email = "-" /\ r.phone = "-" /\ website_content # "" /\ phones # <<"-">>
    THEN join(phones) ELSE "-"

PhoneFound(r, website_content) ==
    phone_on_page(r, website_content,
                  phones_of(website_content))

UMCItemDone(r, phone) ==
    /\ restaurants' = r.restaurants
    /\ missing_restaurants' = r.missing_restaurants
    /\ updated_count' = r.updated_count
    /\ found_phone' = [found_phone EXCEPT ![pos] = phone]

\* one iteration of the first loop of update_missing_contacts
UMCItem ==
    /\ pc = "umc_loop"
    /\ pos <= Len(restaurants)
    /\ \E excerpt \in Excerpts :
         UMCItemDone(update_restaurant(restaurants, pos, excerpt,
                                       missing_restaurants, updated_count),
                     PhoneFound(restaurants[pos],
                                scrape_website_content(restaurants[pos].website,
                                                       excerpt)))
    /\ pos' = pos + 1
    /\ UNCHANGED <<env, files, pc, outv, mainv, state_write, pass_start, gemv>>

\* the write of lines 299-301, or none when nothing was counted
UMCWrite(r, outcome) ==
    IF r.updated > 0
    THEN /\ json_file' = WriteData(json_file, r.restaurants, outcome)
         /\ IF outcome = "ok"
            THEN /\ pc' = "main_gemini"
                 /\ UNCHANGED <<exit_code, fatal, passv>>
            ELSE /\ Return("0", "")
                 /\ pass_start' = <<>>
                 /\ found_phone' = <<>>
    ELSE /\ json_file' = json_file
         /\ pc' = "main_gemini"
         /\ UNCHANGED <<exit_code, fatal, passv>>

\* The rest of update_missing_contacts (lines 287-304): the resolver, and
\* the write when updated_count > 0.  A failed write raises to main, whose
\* handler (lines 467-468) prints it; main then returns 0.
UMCFinish ==
    /\ pc = "umc_loop"
    /\ pos > Len(restaurants)
    /\ \E reply \in GeminiReplies, outcome \in WriteOutcomes :
         IF missing_restaurants # <<>> /\ env.gemini_key
         THEN UMCWrite(apply_results(restaurants,
                                     gemini_fallback_bulk(missing_restaurants,
                                                          env.gemini_key, reply),
                                     updated_count, FALSE),
                       outcome)
         ELSE UMCWrite([restaurants |-> restaurants, updated |-> updated_count],
                       outcome)
    /\ restaurants' = <<>>
    /\ missing_restaurants' = <<>>
    /\ updated_count' = 0
    /\ pos' = 1
    /\ UNCHANGED <<env, state_file, requested, mainv, state_write, gemv>>

MainGeminiWrite(r, outcome) ==
    json_file' = IF r.updated > 0
                 THEN WriteData(json_file, r.restaurants, outcome)
                 ELSE json_file

\* lines 446-464 on the records loaded
main_fallback(rs, missing, key, reply) ==
    IF missing # <<>>
    THEN apply_results(rs, gemini_fallback_bulk(missing, key, reply), 0, TRUE)
    ELSE [restaurants |-> rs, updated |-> 0]

\* the second resolver pass, of main itself (lines 445-468)
MainGemini ==
    /\ pc = "main_gemini"
    /\ \E reply \in GeminiReplies, outcome \in WriteOutcomes :
         MainGeminiWrite(main_fallback(load_existing_data(json_file),
                                       missing_of(load_existing_data(json_file)),
                                       env.gemini_key, reply),
                         outcome)
    /\ Return("0", "")
    /\ PassLocalsGone
    /\ UNCHANGED <<env, state_file, requested, mainv, state_write, gemv>>

\* gemini_fallback_bulk called alone on a list of records missing an email
GeminiCall ==
    /\ pc = "gemini_call"
    /\ \E reply \in ResolverReplies :
         /\ gemini_reply' = reply
         /\ gemini_results' = gemini_fallback_bulk(missing_restaurants,
                                                   env.gemini_key, reply)
    /\ pc' = "gemini_returned"
    /\ UNCHANGED <<env, files, outv, mainv, state_write, umcv, passv>>

Next ==
    \/ MainStart
    \/ MainItem
    \/ MainSaveState
    \/ MainSaveJson
    \/ UMCItem
    \/ UMCFinish
    \/ MainGemini

Spec == Init /\ [][Next]_vars

\* The resolver called alone, on every list of up to MaxMissing records.
InitGemini ==
    /\ env \in {e \in Envs : e.api_configured /\ e.query = QUERY}
    /\ state_file = AbsentState
    /\ json_file = AbsentData
    /\ pc = "gemini_call"
    /\ exit_code = ""
    /\ fatal = ""
    /\ requested = FALSE
    /\ loaded = NoLoaded
    /\ state = DefaultState
    /\ all_restaurants = <<>>
    /\ results = <<>>
    /\ idx = 1
    /\ new_count = 0
    /\ state_write = "none"
    /\ restaurants = <<>>
    /\ missing_restaurants \in SeqsUpTo(MissingSamples, MaxMissing)
    /\ updated_count = 0
    /\ pos = 1
    /\ pass_start = <<>>
    /\ found_phone = <<>>
    /\ gemini_reply = [raised |-> FALSE, text |-> ""]
    /\ gemini_results = <<>>

NextGemini == GeminiCall

SpecGemini == InitGemini /\ [][NextGemini]_vars

(***************************************************************************)
(* The claims.                                                             *)
(***************************************************************************)
IsPrefix(p, q) == Len(p) <= Len(q) /\ SubSeq(q, 1, Len(p)) = p

Records == load_existing_data(json_file)

\* C1: the start_index of the state file is larger after a run that saved
\* its state than it was when the run loaded it, and at every point of a
\* run scraped_urls extends the scraped_urls the run loaded.
C1_StartIndexIncreases ==
    /\ pc \in {"loop", "save_json"} =>
         IsPrefix(loaded.scraped_urls, state.scraped_urls)
    /\ (pc = "save_json" /\ state_write = "ok") =>
         /\ state_file.kind = "json"
         /\ state_file.start_index > loaded.start_index
         /\ IsPrefix(loaded.scraped_urls, state_file.scraped_urls)

C1_Witness ==
    /\ pc = "save_json"
    /\ state_write = "ok"
    /\ loaded.start_index > 1
    /\ loaded.scraped_urls # <<>>
    /\ Len(state.scraped_urls) > Len(loaded.scraped_urls)
    /\ state_file.start_index = loaded.start_index + NUM_RESULTS

\* every item of the page is a dict whose link the loaded state holds
AllLinksSeen ==
    /\ results # <<>>
    /\ \A i \in 1..Len(results) :
         /\ IsDict(results[i])
         /\ "link" \in DOMAIN results[i]
         /\ results[i].link \in Range(loaded.scraped_urls)

\* C2: when the page is not empty and every link of it is in the
\* scraped_urls the run loaded, the loop ends with the records it loaded,
\* and the step after it advances start_index by NUM_RESULTS and, the write
\* succeeding, leaves it in the state file.
C2_SeenPageStillAdvances ==
    [][(pc = "loop" /\ idx > Len(results) /\ AllLinksSeen) =>
         /\ all_restaurants = loaded.data
         /\ new_count = 0
         /\ state.scraped_urls = loaded.scraped_urls
         /\ pc' = "save_json"
         /\ all_restaurants' = loaded.data
         /\ state'.start_index = loaded.start_index + NUM_RESULTS
         /\ state_write' = "ok" =>
              state_file' = [kind |-> "json",
                             start_index |-> loaded.start_index + NUM_RESULTS,
                             scraped_urls |-> loaded.scraped_urls]]_vars

C2_Witness ==
    /\ pc = "loop"
    /\ idx > Len(results)
    /\ Len(results) = 2
    /\ AllLinksSeen
    /\ loaded.data # <<>>
    /\ all_restaurants = loaded.data


\* C3: in the records file every email and every phone is "-" or a joined
\* list of normalized, deduplicated, valid values: the normalizers, which
\* return "-" for "-", leave it as it is.
C3_FieldsNormalized ==
    \A k \in 1..Len(Records) :
        /\ cleaned_email(Records[k].email) = Records[k].email
        /\ cleaned_phone(Records[k].phone) = Records[k].phone

\* C4: between runs every URL of the state file's scraped_urls is the
\* website of a record of the records file.
C4_ScrapedUrlsHaveEntities ==
    (pc = "idle" /\ state_file.kind = "json") =>
        \A u \in Range(state_file.scraped_urls) :
            \E k \in 1..Len(Records) : Records[k].website = u

\* C5: both loads return the default on a file that is absent or does not
\* parse, and no run ends on an error of a load.
C5_LoadsReturnDefault ==
    /\ state_file.kind # "json" =>
         load_state(state_file) =
             [raised |-> FALSE, start_index |-> 1, scraped_urls |-> <<>>]
    /\ json_file.kind # "json" => load_existing_data(json_file) = <<>>
    /\ fatal # "JSONDecodeError"

\* fetch_cse_results raises, and sends no request, for every query under 3
\* characters and every start outside 1..100
FetchRejects ==
    \A query \in Queries, start \in (0 - 1)..102, api \in ApiReplies :
        (Len(query) < 3 \/ start < 1 \/ start > 100) =>
            /\ fetch_cse_results(query, start, api).raised
            /\ ~fetch_cse_results(query, start, api).requested

\* C6: fetch_cse_results raises without a request on a query under 3
\* characters or a start outside 1..100, and a run of main that calls it so
\* ends with exit code 1, no request sent and both files as they were.
C6_InvalidArgumentStopsRun ==
    [][/\ FetchRejects
       /\ (/\ pc = "idle"
           /\ env.api_configured
           /\ state_file.kind # "corrupt"
           /\ \/ Len(env.query) < 3
              \/ load_state(state_file).start_index < 1
              \/ load_state(state_file).start_index > 100) =>
            /\ pc' = "idle"
            /\ exit_code' = "1"
            /\ fatal' \in {"Query must be at least 3 characters",
                           "Start index must be between 1 and 100"}
            /\ ~requested'
            /\ files' = files]_vars

C6_Witness ==
    /\ pc = "idle"
    /\ exit_code = "1"
    /\ fatal = "Start index must be between 1 and 100"
    /\ ~requested
    /\ state_file.kind = "json"
    /\ state_file.start_index = 101

\* the emails of the service's answer
ReplyEmails == emails_of(gemini_reply.text)

\* C7: the resolver returns its results in the order of the records; when
\* the answer holds emails, the i-th record of the batch of at most 3 has
\* the i-th email and those past the emails have "-"; when the service
\* raises, or answers no email, every record has "-".
C7_EmailsZippedInOrder ==
    pc = "gemini_returned" =>
        /\ \A i \in 1..Len(gemini_results) :
             /\ gemini_results[i].name = missing_restaurants[i].name
             /\ gemini_results[i].website = missing_restaurants[i].website
             /\ gemini_results[i].phone = "-"
        /\ IF /\ env.gemini_key
              /\ missing_restaurants # <<>>
              /\ ~gemini_reply.raised
              /\ ReplyEmails # <<"-">>
           THEN /\ Len(gemini_results) = Min(3, Len(missing_restaurants))
                /\ \A i \in 1..Len(gemini_results) :
                     gemini_results[i].email =
                         IF i <= Len(ReplyEmails) THEN ReplyEmails[i] ELSE "-"
           ELSE /\ Len(gemini_results) = Len(missing_restaurants)
                /\ \A i \in 1..Len(gemini_results) :
                     gemini_results[i].email = "-"

C7_Witness ==
    /\ pc = "gemini_returned"
    /\ env.gemini_key
    /\ Len(missing_restaurants) = 3
    /\ Len(ReplyEmails) = 2
    /\ gemini_results[1].email = "a@x.sg"
    /\ gemini_results[2].email = "b@y.sg"
    /\ gemini_results[3].email = "-"

\* C8: when update_missing_contacts has ended, the records file holds every
\* phone the pass found on the page of a record without email and phone.
C8_FoundPhonePersisted ==
    pc = "main_gemini" =>
        \A k \in 1..Len(found_phone) :
            found_phone[k] # "-" =>
                /\ k <= Len(Records)
                /\ Records[k].phone = found_phone[k]

\* C9: no write of the fill pass changes the email of a record that had
\* an email when the pass began.
C9_EmailsKept ==
    [][(pc \in {"umc_loop", "main_gemini"} /\ json_file'.kind = "json"
        /\ Len(json_file'.data) = Len(pass_start)) =>
          \A k \in 1..Len(pass_start) :
              pass_start[k].email # "-" =>
                  json_file'.data[k].email = pass_start[k].email]_vars

\* C10: no two records of the records file have the same website.
C10_WebsitesUnique ==
    \A j, k \in 1..Len(Records) :
        Records[j].website = Records[k].website => j = k
====
